---- MODULE Spec2Model ----
(***************************************************************************)
(* Model of data_gen_tool: gen_tpcds_data.py and gen_tpch_data.py.         *)
(*                                                                         *)
(* Each script drives an embedded engine to generate a benchmark data set, *)
(* exports every table to Parquet, and writes a Hive DDL file and a load   *)
(* script.  Text is modelled as TLA+ strings, built and inspected          *)
(* character by character the way the Python code builds it.               *)
(*                                                                         *)
(* Three specifications share the variables:                               *)
(*   SpecTypes  one call of duckdb_type_to_hive_type                       *)
(*   SpecDDL    get_table_schema followed by generate_hive_ddl             *)
(*   Spec       the export driver generate_tpcds_dataset /                 *)
(*              generate_tpch_dataset, with failing engine and file steps  *)
(***************************************************************************)
EXTENDS Integers, Sequences, FiniteSets, TLC

VARIABLES
    script,        \* which of the two scripts runs: "tpcds" or "tpch"
    pc,            \* position in the code
    duckdb_type,   \* argument of duckdb_type_to_hive_type (SpecTypes)
    hive_type,     \* its return value (SpecTypes)
    table_name,    \* table being processed
    describe,      \* the engine's DESCRIBE result: rows <<name, native type>>
    columns,       \* get_table_schema's result: pairs <<name, hive type>>
    kwargs,        \* names of the keyword arguments the caller passes
    is_external,   \* is_external as passed (read only when in kwargs)
    location,      \* location as passed (read only when in kwargs)
    ddl,           \* generate_hive_ddl's return value
    run,           \* number of the current run of the driver
    db_tables,     \* tables held by the database file in the temp directory
    temp_dir,      \* whether the temp working directory exists
    table_names,   \* the driver's table_names list
    idx,           \* index in table_names of the table being processed
    row_count,     \* the driver's row_count
    ddl_file,      \* chunks written to the DDL file, in order
    parquet,       \* paths of the Parquet files exported in this run, in order
    load_script,   \* whether this run wrote the load script
    steps,         \* this run's per-table steps so far: <<kind, table>>
    failed_at      \* the step at which this run failed, or NoStep

vars == <<script, pc, duckdb_type, hive_type, table_name, describe, columns,
          kwargs, is_external, location, ddl, run, db_tables, temp_dir, table_names,
          idx, row_count, ddl_file, parquet, load_script, steps, failed_at>>

typeVars == <<duckdb_type, hive_type>>
ddlVars == <<describe, columns, kwargs, is_external, location, ddl>>
driverVars == <<run, db_tables, temp_dir, table_names, idx, row_count,
                ddl_file, parquet, load_script, steps, failed_at>>

----------------------------------------------------------------------------
(* Bounds of the model.                                                    *)

MaxPrecision == 2
MaxCols == 2
MaxTables == 2
MaxRuns == 2

Scripts == {"tpcds", "tpch"}

None == "<None>"
NoStep == "<none>"
NoResult == "<no result>"

----------------------------------------------------------------------------
(* Python's string operations.                                             *)

\* str.upper on the letters the inputs use
UpperOf ==
    "a" :> "A" @@ "b" :> "B" @@ "c" :> "C" @@ "d" :> "D" @@ "e" :> "E" @@
    "f" :> "F" @@ "g" :> "G" @@ "h" :> "H" @@ "i" :> "I" @@ "j" :> "J" @@
    "k" :> "K" @@ "l" :> "L" @@ "m" :> "M" @@ "n" :> "N" @@ "o" :> "O" @@
    "p" :> "P" @@ "q" :> "Q" @@ "r" :> "R" @@ "s" :> "S" @@ "t" :> "T" @@
    "u" :> "U" @@ "v" :> "V" @@ "w" :> "W" @@ "x" :> "X" @@ "y" :> "Y" @@
    "z" :> "Z"

UpperChar(c) == IF c \in DOMAIN UpperOf THEN UpperOf[c] ELSE c

RECURSIVE upper(_)
upper(s) ==
    IF s = "" THEN ""
    ELSE UpperChar(SubSeq(s, 1, 1)) \o upper(SubSeq(s, 2, Len(s)))

\* str.lower, used only to spell the inputs
LowerChar(c) ==
    IF \E l \in DOMAIN UpperOf : UpperOf[l] = c
    THEN CHOOSE l \in DOMAIN UpperOf : UpperOf[l] = c
    ELSE c

RECURSIVE lower(_)
lower(s) ==
    IF s = "" THEN ""
    ELSE LowerChar(SubSeq(s, 1, 1)) \o lower(SubSeq(s, 2, Len(s)))

\* sub in s
Contains(s, sub) ==
    \E i \in 1..(Len(s) - Len(sub) + 1) : SubSeq(s, i, i + Len(sub) - 1) = sub

StartsWith(s, prefix) ==
    Len(prefix) <= Len(s) /\ SubSeq(s, 1, Len(prefix)) = prefix

\* s.replace(old, new) for a non-empty old: leftmost non-overlapping matches
RECURSIVE replace(_, _, _)
replace(s, old, new) ==
    IF Len(s) < Len(old) THEN s
    ELSE IF SubSeq(s, 1, Len(old)) = old
         THEN new \o replace(SubSeq(s, Len(old) + 1, Len(s)), old, new)
         ELSE SubSeq(s, 1, 1) \o replace(SubSeq(s, 2, Len(s)), old, new)

\* sep.join(parts)
RECURSIVE join(_, _)
join(sep, parts) ==
    IF parts = <<>> THEN ""
    ELSE IF Len(parts) = 1 THEN parts[1]
    ELSE parts[1] \o sep \o join(sep, Tail(parts))

\* str(n) of a natural number, as an f-string formats it
Digit(d) == SubSeq("0123456789", d + 1, d + 1)

RECURSIVE str(_)
str(n) == IF n < 10 THEN Digit(n) ELSE str(n \div 10) \o Digit(n % 10)

\* dict.get(key, default)
get(dict, key, default) == IF key \in DOMAIN dict THEN dict[key] ELSE default

----------------------------------------------------------------------------
(* duckdb_type_to_hive_type, gen_tpcds_data.py                             *)

tpcds_type_mapping ==
    "INTEGER" :> "INT" @@ "INT" :> "INT" @@ "BIGINT" :> "BIGINT" @@
    "SMALLINT" :> "SMALLINT" @@ "TINYINT" :> "TINYINT" @@
    "DECIMAL" :> "DECIMAL" @@ "NUMERIC" :> "DECIMAL" @@
    "REAL" :> "FLOAT" @@ "FLOAT" :> "FLOAT" @@ "DOUBLE" :> "DOUBLE" @@
    "VARCHAR" :> "STRING" @@ "CHAR" :> "STRING" @@ "TEXT" :> "STRING" @@
    "STRING" :> "STRING" @@ "BOOLEAN" :> "BOOLEAN" @@ "DATE" :> "DATE" @@
    "TIMESTAMP" :> "TIMESTAMP" @@ "TIME" :> "STRING" @@
    "BLOB" :> "BINARY" @@ "BINARY" :> "BINARY"

tpcds_duckdb_type_to_hive_type(t) ==
    LET u == upper(t) IN
    IF Contains(u, "DECIMAL") /\ Contains(u, "(")
    THEN replace(u, "DECIMAL", "DECIMAL")
    ELSE IF Contains(u, "VARCHAR") /\ Contains(u, "(") THEN "STRING"
    ELSE IF Contains(u, "CHAR") /\ Contains(u, "(") THEN "STRING"
    ELSE get(tpcds_type_mapping, u, "STRING")

(* duckdb_type_to_hive_type, gen_tpch_data.py                              *)

tpch_type_mapping ==
    "INTEGER" :> "INT" @@ "INT" :> "INT" @@ "BIGINT" :> "BIGINT" @@
    "SMALLINT" :> "SMALLINT" @@ "TINYINT" :> "TINYINT" @@
    "DECIMAL" :> "DECIMAL" @@ "NUMERIC" :> "DECIMAL" @@
    "REAL" :> "FLOAT" @@ "FLOAT" :> "FLOAT" @@ "DOUBLE" :> "DOUBLE" @@
    "VARCHAR" :> "STRING" @@ "CHAR" :> "STRING" @@ "TEXT" :> "STRING" @@
    "STRING" :> "STRING" @@ "BOOLEAN" :> "BOOLEAN" @@ "DATE" :> "DATE" @@
    "TIMESTAMP" :> "TIMESTAMP" @@ "TIME" :> "STRING" @@
    "BLOB" :> "BINARY" @@ "BINARY" :> "BINARY"

\* mutant: the VARCHAR/CHAR rules tested before the DECIMAL rule
tpch_duckdb_type_to_hive_type_CharFirst(t) ==
    LET u == upper(t) IN
    IF Contains(u, "VARCHAR") /\ Contains(u, "(") THEN "STRING"
    ELSE IF Contains(u, "CHAR") /\ Contains(u, "(") THEN "STRING"
    ELSE IF Contains(u, "DECIMAL") /\ Contains(u, "(")
    THEN replace(u, "DECIMAL", "DECIMAL")
    ELSE get(tpch_type_mapping, u, "STRING")

tpch_duckdb_type_to_hive_type(t) ==
    LET u == upper(t) IN
    IF Contains(u, "DECIMAL") /\ Contains(u, "(")
    THEN replace(u, "DECIMAL", "DECIMAL")
    ELSE IF Contains(u, "VARCHAR") /\ Contains(u, "(") THEN "STRING"
    ELSE IF Contains(u, "CHAR") /\ Contains(u, "(") THEN "STRING"
    ELSE get(tpch_type_mapping, u, "STRING")

duckdb_type_to_hive_type(s, t) ==
    IF s = "tpcds" THEN tpcds_duckdb_type_to_hive_type(t)
    ELSE tpch_duckdb_type_to_hive_type(t)

----------------------------------------------------------------------------
(* get_table_schema: one pair per DESCRIBE row, in row order.              *)

\* mutant: the rows taken last to first
tpcds_get_table_schema_Reversed(rows) ==
    [i \in 1..Len(rows) |->
        <<rows[Len(rows) + 1 - i][1],
          tpcds_duckdb_type_to_hive_type(rows[Len(rows) + 1 - i][2])>>]

tpcds_get_table_schema(rows) ==
    [i \in 1..Len(rows) |->
        <<rows[i][1], tpcds_duckdb_type_to_hive_type(rows[i][2])>>]

tpch_get_table_schema(rows) ==
    [i \in 1..Len(rows) |->
        <<rows[i][1], tpch_duckdb_type_to_hive_type(rows[i][2])>>]

get_table_schema(s, rows) ==
    IF s = "tpcds" THEN tpcds_get_table_schema(rows)
    ELSE tpch_get_table_schema(rows)

----------------------------------------------------------------------------
(* generate_hive_ddl                                                       *)

\* the list column_defs both builders fill
column_defs(cols) ==
    [i \in 1..Len(cols) |-> "  " \o cols[i][1] \o " " \o cols[i][2]]

\* mutant: the tpch head with an empty table_type, two spaces after CREATE
tpcds_generate_hive_ddl_TwoSpaces(t, cols) ==
    "CREATE  TABLE IF NOT EXISTS " \o t \o " (\n"
        \o join(",\n", column_defs(cols))
        \o "\n)\nSTORED AS PARQUET;"

\* gen_tpcds_data.py: generate_hive_ddl(table_name, columns)
tpcds_generate_hive_ddl(t, cols) ==
    "CREATE TABLE IF NOT EXISTS " \o t \o " (\n"
        \o join(",\n", column_defs(cols))
        \o "\n)\nSTORED AS PARQUET;"

\* mutant: is_external defaulting to False
tpch_is_external_default_False == FALSE

\* gen_tpch_data.py: the defaults of is_external and location
tpch_is_external_default == TRUE
tpch_location_default == None

\* Python's truth value of location: None and "" are false
truthy(loc) == loc # None /\ loc # ""

\* mutant: LOCATION emitted for any non-empty location, external or not
tpch_generate_hive_ddl_LocOnly(t, cols, ext, loc) ==
    LET table_type == IF ext THEN "EXTERNAL" ELSE ""
        head == "CREATE " \o table_type \o " TABLE IF NOT EXISTS " \o t \o " (\n"
        body == head \o join(",\n", column_defs(cols))
                     \o "\n)\nSTORED AS PARQUET"
        withLoc == IF truthy(loc)
                   THEN body \o "\nLOCATION '" \o loc \o "/" \o t \o "'"
                   ELSE body
    IN  withLoc \o ";"

\* gen_tpch_data.py: generate_hive_ddl(table_name, columns, is_external, location)
tpch_generate_hive_ddl(t, cols, ext, loc) ==
    LET table_type == IF ext THEN "EXTERNAL" ELSE ""
        head == "CREATE " \o table_type \o " TABLE IF NOT EXISTS " \o t \o " (\n"
        body == head \o join(",\n", column_defs(cols))
                     \o "\n)\nSTORED AS PARQUET"
        withLoc == IF truthy(loc) /\ ext
                   THEN body \o "\nLOCATION '" \o loc \o "/" \o t \o "'"
                   ELSE body
    IN  withLoc \o ";"

\* the parameters as Python binds them: the passed value, else the default
BoundIsExternal(kw, ext) ==
    IF "is_external" \in kw THEN ext ELSE tpch_is_external_default

BoundLocation(kw, loc) ==
    IF "location" \in kw THEN loc ELSE tpch_location_default

\* a call of the script's generate_hive_ddl with the keyword arguments kw
generate_hive_ddl(s, t, cols, kw, ext, loc) ==
    IF s = "tpcds" THEN tpcds_generate_hive_ddl(t, cols)
    ELSE tpch_generate_hive_ddl(t, cols, BoundIsExternal(kw, ext),
                                BoundLocation(kw, loc))

----------------------------------------------------------------------------
(* Inputs.                                                                 *)

\* base names of native types: the keys of the table and some others
BaseNames ==
    {"INTEGER", "INT", "BIGINT", "SMALLINT", "TINYINT", "DECIMAL", "NUMERIC",
     "REAL", "FLOAT", "DOUBLE", "VARCHAR", "CHAR", "TEXT", "STRING",
     "BOOLEAN", "DATE", "TIMESTAMP", "TIME", "BLOB", "BINARY",
     "UNKNOWNTYPE", "HUGEINT", "UUID", "TIMESTAMP WITH TIME ZONE"}

capitalize(s) == SubSeq(s, 1, 1) \o lower(SubSeq(s, 2, Len(s)))

Spellings(b) == {b, lower(b), capitalize(b)}

\* what may follow a base name
Suffixes ==
    {"", "[]", "(25)", "(15,2)", "(10,2)", "(15,2)[]"}
    \cup {"(" \o str(p) \o ")" : p \in 1..MaxPrecision}
    \cup {"(" \o str(p) \o "," \o str(sc) \o ")" :
              p \in 1..MaxPrecision, sc \in 0..MaxPrecision}

\* a type alone, or nested in a MAP type
Nestings(t) == {t, "MAP(VARCHAR, " \o t \o ")"}

NativeTypes ==
    UNION {Nestings(sp \o sf) :
              sp \in UNION {Spellings(b) : b \in BaseNames}, sf \in Suffixes}

\* the values of the variables a specification does not use
IdleTypes == duckdb_type = "" /\ hive_type = NoResult

IdleDDL ==
    /\ describe = <<>>
    /\ columns = <<>>
    /\ kwargs = {}
    /\ is_external = FALSE
    /\ location = None
    /\ ddl = ""

IdleDriver ==
    /\ run = 0
    /\ db_tables = <<>>
    /\ temp_dir = FALSE
    /\ table_names = <<>>
    /\ idx = 0
    /\ row_count = 0
    /\ ddl_file = <<>>
    /\ parquet = <<>>
    /\ load_script = FALSE
    /\ steps = <<>>
    /\ failed_at = NoStep

----------------------------------------------------------------------------
(* SpecTypes: one call of duckdb_type_to_hive_type.                        *)

InitTypes ==
    /\ script \in Scripts
    /\ pc = "call"
    /\ duckdb_type \in NativeTypes
    /\ hive_type = NoResult
    /\ table_name = ""
    /\ IdleDDL
    /\ IdleDriver

Normalize ==
    /\ pc = "call"
    /\ hive_type' = duckdb_type_to_hive_type(script, duckdb_type)
    /\ pc' = "returned"
    /\ UNCHANGED <<script, duckdb_type, table_name, ddlVars, driverVars>>

NextTypes == Normalize

SpecTypes == InitTypes /\ [][NextTypes]_vars

----------------------------------------------------------------------------
(* SpecDDL: a DESCRIBE result through get_table_schema to                  *)
(* generate_hive_ddl.                                                      *)

ColumnNames == {"c" \o str(i) : i \in 1..MaxCols}

ColumnTypes == {"INTEGER", "VARCHAR(25)", "decimal(15,2)", "UNKNOWNTYPE"}

\* DESCRIBE results: up to MaxCols rows, no column name twice
DescribeResults ==
    UNION {{r \in [1..n -> ColumnNames \X ColumnTypes] :
               \A i, j \in 1..n : i # j => r[i][1] # r[j][1]} : n \in 0..MaxCols}

TableNames == {"t1", "region"}

Locations == {None, "", "/data"}

InitDDL ==
    /\ script \in Scripts
    /\ pc = "describe"
    /\ table_name \in TableNames
    /\ describe \in DescribeResults
    /\ columns = <<>>
    /\ kwargs \in IF script = "tpch" THEN SUBSET {"is_external", "location"}
                  ELSE {{}}
    /\ is_external \in IF "is_external" \in kwargs THEN BOOLEAN ELSE {FALSE}
    /\ location \in IF "location" \in kwargs THEN Locations ELSE {None}
    /\ ddl = ""
    /\ IdleTypes
    /\ IdleDriver

GetTableSchema ==
    /\ pc = "describe"
    /\ columns' = get_table_schema(script, describe)
    /\ pc' = "schema"
    /\ UNCHANGED <<script, typeVars, table_name, describe, kwargs, is_external,
                   location, ddl, driverVars>>

GenerateHiveDDL ==
    /\ pc = "schema"
    /\ ddl' = generate_hive_ddl(script, table_name, columns, kwargs,
                                is_external, location)
    /\ pc' = "ddl"
    /\ UNCHANGED <<script, typeVars, table_name, describe, columns, kwargs,
                   is_external, location, driverVars>>

NextDDL == GetTableSchema \/ GenerateHiveDDL

SpecDDL == InitDDL /\ [][NextDDL]_vars

----------------------------------------------------------------------------
(* Properties of duckdb_type_to_hive_type, under SpecTypes.                *)

IsDigits(s) == s # "" /\ \A i \in 1..Len(s) : Contains("0123456789", SubSeq(s, i, i))

\* DECIMAL, DECIMAL(p) or DECIMAL(p,s)
IsDecimalForm(s) ==
    \/ s = "DECIMAL"
    \/ /\ StartsWith(s, "DECIMAL(")
       /\ SubSeq(s, Len(s), Len(s)) = ")"
       /\ LET inner == SubSeq(s, 9, Len(s) - 1) IN
          \/ IsDigits(inner)
          \/ \E k \in 2..(Len(inner) - 1) :
                /\ SubSeq(inner, k, k) = ","
                /\ IsDigits(SubSeq(inner, 1, k - 1))
                /\ IsDigits(SubSeq(inner, k + 1, Len(inner)))

TargetNames ==
    {"INT", "BIGINT", "SMALLINT", "TINYINT", "FLOAT", "DOUBLE", "STRING",
     "BOOLEAN", "DATE", "TIMESTAMP", "BINARY"}

IsTargetForm(s) == s \in TargetNames \/ IsDecimalForm(s)

\* the fixed table as the specification lists it
ListedTable ==
    "INTEGER" :> "INT" @@ "INT" :> "INT" @@ "BIGINT" :> "BIGINT" @@
    "SMALLINT" :> "SMALLINT" @@ "TINYINT" :> "TINYINT" @@
    "DECIMAL" :> "DECIMAL" @@ "NUMERIC" :> "DECIMAL" @@
    "REAL" :> "FLOAT" @@ "FLOAT" :> "FLOAT" @@ "DOUBLE" :> "DOUBLE" @@
    "VARCHAR" :> "STRING" @@ "CHAR" :> "STRING" @@ "TEXT" :> "STRING" @@
    "STRING" :> "STRING" @@ "BOOLEAN" :> "BOOLEAN" @@ "DATE" :> "DATE" @@
    "TIMESTAMP" :> "TIMESTAMP" @@ "TIME" :> "STRING" @@
    "BLOB" :> "BINARY" @@ "BINARY" :> "BINARY"

\* the text before the first "(", the whole text when there is none
BaseName(s) ==
    IF Contains(s, "(")
    THEN LET k == CHOOSE i \in 1..Len(s) :
                      /\ SubSeq(s, i, i) = "("
                      /\ ~Contains(SubSeq(s, 1, i - 1), "(")
         IN  SubSeq(s, 1, k - 1)
    ELSE s

IsDecimalWithParams(t) == Contains(upper(t), "DECIMAL") /\ Contains(t, "(")

IsCharWithLength(t) == Contains(upper(t), "CHAR") /\ Contains(t, "(")

\* the characters of s that are not letters, in order
RECURSIVE NonLetters(_)
NonLetters(s) ==
    IF s = "" THEN ""
    ELSE LET c == SubSeq(s, 1, 1)
             rest == NonLetters(SubSeq(s, 2, Len(s)))
         IN  IF c \in DOMAIN UpperOf \/ LowerChar(c) # c THEN rest ELSE c \o rest

\* C1: every call returns one of the twelve target forms, and an input no
\* rule recognizes yields STRING.
C1_ClosedVocabulary ==
    pc = "returned" =>
        /\ IsTargetForm(hive_type)
        /\ ( /\ ~IsDecimalWithParams(duckdb_type)
             /\ ~IsCharWithLength(duckdb_type)
             /\ upper(duckdb_type) \notin DOMAIN ListedTable
             => hive_type = "STRING" )

\* C2: a type that is neither DECIMAL with parameters nor VARCHAR/CHAR with a
\* length maps to the table entry of its upper-cased base name, whatever its
\* letter case and whatever parameter suffix follows the base name.
C2_BaseNameLookup ==
    ( /\ pc = "returned"
      /\ ~IsDecimalWithParams(duckdb_type)
      /\ ~IsCharWithLength(duckdb_type) )
    => hive_type = get(ListedTable, BaseName(upper(duckdb_type)), "STRING")

\* C6: a type that contains DECIMAL and a parenthesized suffix is returned
\* upper-cased and otherwise unchanged, precision and scale included, also
\* when it contains VARCHAR or CHAR.
C6_DecimalVerbatim ==
    (pc = "returned" /\ IsDecimalWithParams(duckdb_type))
    => /\ hive_type = upper(duckdb_type)
       /\ NonLetters(hive_type) = NonLetters(duckdb_type)

C6_Witness ==
    /\ pc = "returned"
    /\ duckdb_type = "MAP(VARCHAR, decimal(15,2))"
    /\ hive_type = "MAP(VARCHAR, DECIMAL(15,2))"

----------------------------------------------------------------------------
(* Properties of generate_hive_ddl and get_table_schema, under SpecDDL.    *)

\* the lines of a text, split at "\n"
RECURSIVE Lines(_)
Lines(s) ==
    IF ~Contains(s, "\n") THEN <<s>>
    ELSE LET k == CHOOSE i \in 1..Len(s) :
                      /\ SubSeq(s, i, i) = "\n"
                      /\ ~Contains(SubSeq(s, 1, i - 1), "\n")
         IN  <<SubSeq(s, 1, k - 1)>> \o Lines(SubSeq(s, k + 1, Len(s)))

\* the column lines, each but the last ended by a comma and a newline
RECURSIVE ColumnText(_)
ColumnText(cols) ==
    IF cols = <<>> THEN ""
    ELSE "  " \o cols[1][1] \o " " \o cols[1][2]
         \o (IF Len(cols) > 1 THEN ",\n" \o ColumnText(Tail(cols)) ELSE "")

\* the internal-table statement, with `gap` between CREATE and TABLE
InternalText(gap, t, cols) ==
    "CREATE" \o gap \o "TABLE IF NOT EXISTS " \o t \o " (" \o "\n"
        \o ColumnText(cols) \o "\n" \o ")" \o "\n" \o "STORED AS PARQUET;"

ExternalArg == BoundIsExternal(kwargs, is_external)
LocationArg == BoundLocation(kwargs, location)

\* a call for an internal table: external = false and no location
InternalCall ==
    /\ pc = "ddl"
    /\ script = "tpch" => ("is_external" \in kwargs /\ ~is_external)
    /\ LocationArg = None

\* C3 as stated: both builders return the text with two spaces after CREATE.
C3_SameTwoSpaceText ==
    InternalCall => ddl = InternalText("  ", table_name, columns)

\* C3 as amended: for an internal table the gen_tpch_data.py builder returns
\* the text with two spaces between CREATE and TABLE, the gen_tpcds_data.py
\* builder the same text with one space; no LOCATION clause in either.
C3_InternalText ==
    InternalCall =>
        /\ ddl = InternalText(IF script = "tpch" THEN "  " ELSE " ",
                              table_name, columns)
        /\ ~Contains(ddl, "LOCATION")

C3_Witness ==
    /\ pc = "ddl"
    /\ script = "tpcds"
    /\ Len(columns) = 2
    /\ ddl = "CREATE TABLE IF NOT EXISTS t1 (\n  c1 INT,\n  c2 STRING\n)\nSTORED AS PARQUET;"

LocationClause(loc, t) == "LOCATION '" \o loc \o "/" \o t \o "'"

\* C4 as stated: LOCATION '<location>/<table>' is present exactly when
\* external is true and location is non-empty; otherwise there is no LOCATION
\* clause and no EXTERNAL keyword.
C4_LocationOrManaged ==
    (pc = "ddl" /\ script = "tpch") =>
        LET both == ExternalArg /\ truthy(LocationArg) IN
        /\ Contains(ddl, LocationClause(LocationArg, table_name)) <=> both
        /\ ~both => (~Contains(ddl, "LOCATION") /\ ~Contains(ddl, "EXTERNAL"))

\* C4 as amended: LOCATION '<location>/<table>' is present exactly when
\* external is true and location is non-empty, otherwise no LOCATION clause;
\* the EXTERNAL keyword is present exactly when external is true, with or
\* without a location.
C4_LocationIffBoth ==
    (pc = "ddl" /\ script = "tpch") =>
        LET both == ExternalArg /\ truthy(LocationArg) IN
        /\ Contains(ddl, LocationClause(LocationArg, table_name)) <=> both
        /\ ~both => ~Contains(ddl, "LOCATION")
        /\ Contains(ddl, "EXTERNAL") <=> ExternalArg

C4_Witness ==
    /\ pc = "ddl"
    /\ script = "tpch"
    /\ kwargs = {"is_external", "location"}
    /\ is_external
    /\ location = "/data"
    /\ table_name = "t1"
    /\ Contains(ddl, "\nSTORED AS PARQUET\nLOCATION '/data/t1';")

\* C5 as stated: with the external flag left unset the gen_tpch_data.py
\* builder returns an internal-table statement without EXTERNAL.
C5_DefaultInternal ==
    (pc = "ddl" /\ script = "tpch" /\ "is_external" \notin kwargs) =>
        /\ ~Contains(ddl, "EXTERNAL")
        /\ StartsWith(ddl, "CREATE  TABLE IF NOT EXISTS " \o table_name)

\* C5 as amended: with the external flag left unset the builder returns an
\* external-table statement, CREATE EXTERNAL TABLE, with a LOCATION clause
\* exactly when a non-empty location is passed.
C5_DefaultExternal ==
    (pc = "ddl" /\ script = "tpch" /\ "is_external" \notin kwargs) =>
        /\ StartsWith(ddl, "CREATE EXTERNAL TABLE IF NOT EXISTS " \o table_name)
        /\ Contains(ddl, "LOCATION") <=> truthy(LocationArg)

C5_Witness ==
    /\ pc = "ddl"
    /\ script = "tpch"
    /\ kwargs = {}
    /\ table_name = "t1"
    /\ StartsWith(ddl, "CREATE EXTERNAL TABLE IF NOT EXISTS t1 (")

\* the normalized types of the column types SpecDDL draws
ExpectedHiveType ==
    "INTEGER" :> "INT" @@ "VARCHAR(25)" :> "STRING" @@
    "decimal(15,2)" :> "DECIMAL(15,2)" @@ "UNKNOWNTYPE" :> "STRING"

\* the non-empty lines of the statement between its head and the ")" line
RECURSIVE NonEmpty(_)
NonEmpty(ls) ==
    IF ls = <<>> THEN <<>>
    ELSE IF ls[1] = "" THEN NonEmpty(Tail(ls))
    ELSE <<ls[1]>> \o NonEmpty(Tail(ls))

ColumnLines(text) ==
    LET ls == Lines(text)
        k == CHOOSE i \in 1..Len(ls) :
                 ls[i] = ")" /\ \A j \in 1..(i - 1) : ls[j] # ")"
    IN  NonEmpty(SubSeq(ls, 2, k - 1))

\* C7: the statement has one column line per DESCRIBE row, and the i-th line
\* names the i-th row's column with its normalized type.
C7_ColumnOrder ==
    pc = "ddl" =>
        LET cl == ColumnLines(ddl)
            n == Len(describe)
        IN  /\ Len(cl) = n
            /\ \A i \in 1..n :
                  cl[i] = "  " \o describe[i][1] \o " "
                          \o ExpectedHiveType[describe[i][2]]
                          \o (IF i < n THEN "," ELSE "")

C7_Witness ==
    /\ pc = "ddl"
    /\ describe = << <<"c2", "VARCHAR(25)">>, <<"c1", "INTEGER">> >>
    /\ ColumnLines(ddl) = <<"  c2 STRING,", "  c1 INT">>

----------------------------------------------------------------------------
(* Spec: the export driver, generate_tpcds_dataset / generate_tpch_dataset.*)
(*                                                                         *)
(* The engine is a fake: dsdgen/dbgen leaves some tables of Catalog in the *)
(* database file, DESCRIBE reports SchemaOf, the row count one of RowCounts.    *)
(* Every engine call and every file operation may raise; nothing catches   *)
(* it, the `with` block closes the DDL file and the process ends.  The     *)
(* temp directory is the fixed relative path temp_tpcds / temp_tpch; the   *)
(* runs modelled are given a fresh output directory each (-o), so output   *)
(* files start absent in every run.  The scale factor is the default 1.    *)

Catalog == {"region", "nation", "lineitem"}

SchemaOf ==
    "region" :> << <<"r_regionkey", "INTEGER">>, <<"r_name", "VARCHAR(25)">> >> @@
    "nation" :> << <<"n_nationkey", "INTEGER">>, <<"n_comment", "VARCHAR(152)">> >> @@
    "lineitem" :> << <<"l_orderkey", "BIGINT">>,
                     <<"l_quantity", "DECIMAL(15,2)">>,
                     <<"l_shipdate", "DATE">> >>

RowCounts == {0, 5, 25}

\* what SHOW TABLES may list: 1..MaxTables tables, none twice
Listings ==
    UNION {{l \in [1..n -> Catalog] :
               \A i, j \in 1..n : i # j => l[i] # l[j]} : n \in 1..MaxTables}

\* the dataset's name in file and database names
Dataset(s) == IF s = "tpcds" THEN "tpcds" ELSE "tpch"
Title(s) == IF s = "tpcds" THEN "TPC-DS" ELSE "TPC-H"

\* output_dir: the default in the first run, another directory afterwards
output_dir(s, r) == IF r = 1 THEN Dataset(s) ELSE "out" \o str(r)

\* os.path.join(parquet_dir, table_name, f"{table_name}.parquet")
parquet_file(s, r, t) ==
    output_dir(s, r) \o "/" \o "parquet" \o "/" \o t \o "/" \o t \o ".parquet"

\* the writes before the loop; the two comment lines in Chinese and the
\* timestamp are abbreviated to ASCII
Preamble(s) ==
    << "-- Hive DDL for " \o Title(s) \o " SF" \o str(1) \o "\n",
       "-- generated: <now>\n\n",
       "-- create database\n",
       "CREATE DATABASE IF NOT EXISTS " \o Dataset(s) \o "_sf1;\n",
       "USE " \o Dataset(s) \o "_sf1;\n\n" >>

\* mutant: the statement written before its comment line
TableBlock_StatementFirst(t, n, stmt) ==
    << stmt, "-- Table: " \o t \o " (" \o str(n) \o " rows)\n", "\n\n" >>

\* the three writes of one table
TableBlock(t, n, stmt) ==
    << "-- Table: " \o t \o " (" \o str(n) \o " rows)\n", stmt, "\n\n" >>

\* the keyword arguments of the driver's call of generate_hive_ddl
DriverKwargs(s) == IF s = "tpch" THEN {"is_external"} ELSE {}

Step(kind, t, n) == [kind |-> kind, table |-> t, rows |-> n]

InitRun ==
    /\ table_names = <<>>
    /\ idx = 0
    /\ row_count = 0
    /\ ddl_file = <<>>
    /\ parquet = <<>>
    /\ load_script = FALSE
    /\ steps = <<>>
    /\ failed_at = NoStep
    /\ table_name = ""
    /\ describe = <<>>
    /\ columns = <<>>
    /\ ddl = ""

Init ==
    /\ script \in Scripts
    /\ pc = "makedirs"
    /\ run = 1
    /\ db_tables = <<>>
    /\ temp_dir = FALSE
    /\ kwargs = DriverKwargs(script)
    /\ is_external = FALSE
    /\ location = None
    /\ IdleTypes
    /\ InitRun

fixedVars == <<script, typeVars, kwargs, is_external, location, run>>
tableVars == <<table_name, describe, columns, ddl>>
outVars == <<ddl_file, parquet, load_script>>

\* os.makedirs(temp_dir), os.makedirs(output_dir), os.makedirs(parquet_dir)
MakeDirs ==
    /\ pc = "makedirs"
    /\ temp_dir' = TRUE
    /\ pc' = "connect"
    /\ UNCHANGED <<fixedVars, tableVars, outVars, db_tables, table_names, idx,
                   row_count, steps, failed_at>>

\* duckdb.connect(temp_db), INSTALL, LOAD
Connect ==
    /\ pc = "connect"
    /\ pc' = "dbgen"
    /\ UNCHANGED <<fixedVars, tableVars, outVars, db_tables, temp_dir,
                   table_names, idx, row_count, steps, failed_at>>

\* CALL dsdgen / dbgen: the database file holds the generated tables; a file
\* left by an earlier run already holds its tables
Generate ==
    /\ pc = "dbgen"
    /\ IF db_tables = <<>> THEN db_tables' \in Listings
       ELSE db_tables' = db_tables
    /\ pc' = "show"
    /\ UNCHANGED <<fixedVars, tableVars, outVars, temp_dir, table_names, idx,
                   row_count, steps, failed_at>>

\* SHOW TABLES
ShowTables ==
    /\ pc = "show"
    /\ table_names' = db_tables
    /\ pc' = "open"
    /\ UNCHANGED <<fixedVars, tableVars, outVars, db_tables, temp_dir, idx,
                   row_count, steps, failed_at>>

\* open(ddl_file, "w") and the writes before the loop
WritePreamble ==
    /\ pc = "open"
    /\ ddl_file' = Preamble(script)
    /\ idx' = 1
    /\ pc' = IF Len(table_names) >= 1 THEN "count" ELSE "close"
    /\ UNCHANGED <<fixedVars, tableVars, parquet, load_script, db_tables,
                   temp_dir, table_names, row_count, steps, failed_at>>

\* the row count query on table_name
CountRows ==
    /\ pc = "count"
    /\ table_name' = table_names[idx]
    /\ \E n \in RowCounts :
          /\ row_count' = n
          /\ steps' = Append(steps, Step("count", table_names[idx], n))
    /\ pc' = "copy"
    /\ UNCHANGED <<fixedVars, describe, columns, ddl, outVars, db_tables,
                   temp_dir, table_names, idx, failed_at>>

\* os.makedirs(table_dir) and COPY table_name TO parquet_file
ExportParquet ==
    /\ pc = "copy"
    /\ parquet' = Append(parquet, parquet_file(script, run, table_name))
    /\ steps' = Append(steps, Step("copy", table_name, row_count))
    /\ pc' = "describe"
    /\ UNCHANGED <<fixedVars, tableVars, ddl_file, load_script, db_tables,
                   temp_dir, table_names, idx, row_count, failed_at>>

\* columns = get_table_schema(con, table_name)
DescribeTable ==
    /\ pc = "describe"
    /\ describe' = SchemaOf[table_name]
    /\ columns' = get_table_schema(script, SchemaOf[table_name])
    /\ steps' = Append(steps, Step("describe", table_name, row_count))
    /\ pc' = "write"
    /\ UNCHANGED <<fixedVars, table_name, ddl, outVars, db_tables, temp_dir,
                   table_names, idx, row_count, failed_at>>

\* ddl = generate_hive_ddl(...), the three writes, and the loop's next turn
WriteBlock ==
    /\ pc = "write"
    /\ ddl' = generate_hive_ddl(script, table_name, columns, kwargs,
                                is_external, location)
    /\ ddl_file' = ddl_file \o TableBlock(table_name, row_count, ddl')
    /\ steps' = Append(steps, Step("block", table_name, row_count))
    /\ IF idx < Len(table_names)
       THEN idx' = idx + 1 /\ pc' = "count"
       ELSE idx' = idx /\ pc' = "close"
    /\ UNCHANGED <<fixedVars, table_name, describe, columns, parquet,
                   load_script, db_tables, temp_dir, table_names, row_count,
                   failed_at>>

\* the end of the with block and con.close()
CloseAll ==
    /\ pc = "close"
    /\ pc' = "loadscript"
    /\ UNCHANGED <<fixedVars, tableVars, outVars, db_tables, temp_dir,
                   table_names, idx, row_count, steps, failed_at>>

\* the load script and os.chmod
WriteLoadScript ==
    /\ pc = "loadscript"
    /\ load_script' = TRUE
    /\ pc' = "cleanup"
    /\ UNCHANGED <<fixedVars, tableVars, ddl_file, parquet, db_tables, temp_dir,
                   table_names, idx, row_count, steps, failed_at>>

\* shutil.rmtree(temp_dir, ignore_errors=True): the directory is removed
Cleanup ==
    /\ pc = "cleanup"
    /\ temp_dir' = FALSE
    /\ db_tables' = <<>>
    /\ pc' = "done"
    /\ UNCHANGED <<fixedVars, tableVars, outVars, table_names, idx, row_count,
                   steps, failed_at>>

\* shutil.rmtree(temp_dir, ignore_errors=True): removal fails, silently
CleanupIgnoredError ==
    /\ pc = "cleanup"
    /\ pc' = "done"
    /\ UNCHANGED <<fixedVars, tableVars, outVars, db_tables, temp_dir,
                   table_names, idx, row_count, steps, failed_at>>

\* the steps that raise without having written to the DDL file
Raising ==
    {"makedirs", "connect", "dbgen", "show", "count", "copy", "describe",
     "close", "loadscript"}

\* mutant: a failure handler that removes the DDL file written so far
Fail_Rollback ==
    /\ pc \in Raising
    /\ failed_at' = pc
    /\ pc' = "failed"
    /\ ddl_file' = <<>>
    /\ UNCHANGED <<fixedVars, tableVars, parquet, load_script, db_tables,
                   temp_dir, table_names, idx, row_count, steps>>

\* an engine call or a file operation raises: the exception is not caught
Fail ==
    /\ pc \in Raising
    /\ failed_at' = pc
    /\ pc' = "failed"
    /\ UNCHANGED <<fixedVars, tableVars, outVars, db_tables, temp_dir,
                   table_names, idx, row_count, steps>>

\* open or one of the writes before the loop raises: the earlier writes stay
FailPreamble ==
    /\ pc = "open"
    /\ \E j \in 0..(Len(Preamble(script)) - 1) :
          ddl_file' = SubSeq(Preamble(script), 1, j)
    /\ failed_at' = pc
    /\ pc' = "failed"
    /\ UNCHANGED <<fixedVars, tableVars, parquet, load_script, db_tables,
                   temp_dir, table_names, idx, row_count, steps>>

\* one of the three writes of a table raises: the earlier writes stay
FailWrite ==
    /\ pc = "write"
    /\ ddl' = generate_hive_ddl(script, table_name, columns, kwargs,
                                is_external, location)
    /\ \E j \in 0..2 :
          ddl_file' = ddl_file \o SubSeq(TableBlock(table_name, row_count, ddl'), 1, j)
    /\ failed_at' = pc
    /\ pc' = "failed"
    /\ UNCHANGED <<fixedVars, table_name, describe, columns, parquet,
                   load_script, db_tables, temp_dir, table_names, idx,
                   row_count, steps>>

\* the script is started again
Restart ==
    /\ pc \in {"done", "failed"}
    /\ run < MaxRuns
    /\ run' = run + 1
    /\ pc' = "makedirs"
    /\ table_names' = <<>>
    /\ idx' = 0
    /\ row_count' = 0
    /\ ddl_file' = <<>>
    /\ parquet' = <<>>
    /\ load_script' = FALSE
    /\ steps' = <<>>
    /\ failed_at' = NoStep
    /\ table_name' = ""
    /\ describe' = <<>>
    /\ columns' = <<>>
    /\ ddl' = ""
    /\ UNCHANGED <<script, typeVars, kwargs, is_external, location, db_tables,
                   temp_dir>>

Next ==
    \/ MakeDirs
    \/ Connect
    \/ Generate
    \/ ShowTables
    \/ WritePreamble
    \/ CountRows
    \/ ExportParquet
    \/ DescribeTable
    \/ WriteBlock
    \/ CloseAll
    \/ WriteLoadScript
    \/ Cleanup
    \/ CleanupIgnoredError
    \/ Fail
    \/ FailPreamble
    \/ FailWrite
    \/ Restart

Spec == Init /\ [][Next]_vars

----------------------------------------------------------------------------
(* Properties of the driver, under Spec.                                   *)

Kinds == <<"count", "copy", "describe", "block">>

\* the normalized types of the catalog's column types
CatalogHiveType ==
    "INTEGER" :> "INT" @@ "BIGINT" :> "BIGINT" @@ "DATE" :> "DATE" @@
    "VARCHAR(25)" :> "STRING" @@ "VARCHAR(152)" :> "STRING" @@
    "DECIMAL(15,2)" :> "DECIMAL(15,2)"

RowText == 0 :> "0" @@ 5 :> "5" @@ 25 :> "25"

IsPrefix(a, b) == Len(a) <= Len(b) /\ SubSeq(b, 1, Len(a)) = a

\* the steps so far are, table by table in listing order, the row count,
\* the export, the DESCRIBE and the block
StepsInOrder ==
    \A j \in 1..Len(steps) :
        /\ ((j - 1) \div 4) + 1 <= Len(table_names)
        /\ steps[j].kind = Kinds[((j - 1) % 4) + 1]
        /\ steps[j].table = table_names[((j - 1) \div 4) + 1]

\* the row count fetched for the i-th table
RowsOf(i) == steps[4 * (i - 1) + 1].rows

\* the first five chunks of the file are the preamble: comment lines, then
\* CREATE DATABASE and USE
PreambleAt(f) ==
    /\ Len(f) >= 5
    /\ \A j \in 1..3 : StartsWith(f[j], "--")
    /\ f[4] = "CREATE DATABASE IF NOT EXISTS " \o Dataset(script) \o "_sf1;\n"
    /\ f[5] = "USE " \o Dataset(script) \o "_sf1;\n\n"
    /\ \A j \in 6..Len(f) : ~Contains(f[j], "CREATE DATABASE") /\ ~StartsWith(f[j], "USE ")

\* chunks 5+3(i-1)+1 .. 5+3i of the file are the block of the i-th table,
\* its statement starting CREATE<gap>TABLE
BlockAt(f, i, gap) ==
    LET t == table_names[i]
        b == 5 + 3 * (i - 1)
        sch == SchemaOf[t]
    IN  /\ Len(f) >= b + 3
        /\ f[b + 1] = "-- Table: " \o t \o " (" \o RowText[RowsOf(i)] \o " rows)\n"
        /\ StartsWith(f[b + 2], "CREATE" \o gap \o "TABLE IF NOT EXISTS " \o t \o " (\n")
        /\ ColumnLines(f[b + 2]) =
              [c \in 1..Len(sch) |->
                  "  " \o sch[c][1] \o " " \o CatalogHiveType[sch[c][2]]
                  \o (IF c < Len(sch) THEN "," ELSE "")]
        /\ f[b + 3] = "\n\n"

ParquetAt(i) ==
    parquet[i] = output_dir(script, run) \o "/parquet/" \o table_names[i]
                 \o "/" \o table_names[i] \o ".parquet"

\* a completed run's file and steps, the statements starting CREATE<gap>TABLE
CompletedRun(tpcdsGap, tpchGap) ==
    /\ StepsInOrder
    /\ pc = "done" =>
          LET n == Len(table_names) IN
          /\ Len(steps) = 4 * n
          /\ PreambleAt(ddl_file)
          /\ Len(ddl_file) = 5 + 3 * n
          /\ \A i \in 1..n :
                BlockAt(ddl_file, i, IF script = "tpcds" THEN tpcdsGap ELSE tpchGap)
          /\ Len(parquet) = n
          /\ \A i \in 1..n : ParquetAt(i)

\* C8 as stated: in a completed run the DDL file is the preamble, written
\* once, then one block per listed table in listing order, each the comment
\* line and a statement starting CREATE TABLE IF NOT EXISTS <table> ( with
\* the normalized types; per table the row count, the export and the block
\* come in that order before any step of the next table.
C8_OneSpaceBlocks == CompletedRun(" ", " ")

\* C8 as amended: the same, the statement starting CREATE TABLE (one space)
\* in gen_tpcds_data.py and CREATE  TABLE (two spaces) in gen_tpch_data.py.
C8_CompletedRun == CompletedRun(" ", "  ")

C8_Witness ==
    /\ pc = "done"
    /\ script = "tpch"
    /\ table_names = <<"region", "lineitem">>
    /\ ddl_file[6] = "-- Table: region (5 rows)\n"
    /\ StartsWith(ddl_file[7],
           "CREATE  TABLE IF NOT EXISTS region (\n  r_regionkey INT,\n  r_name STRING\n)")
    /\ Len(parquet) = 2

\* C9: whenever a run has ended the temp directory is deleted, and every run
\* starts from an empty engine database.
C9_TempDirDeleted ==
    /\ pc \in {"done", "failed"} => ~temp_dir
    /\ pc \in {"makedirs", "connect", "dbgen"} => db_tables = <<>>

\* what a failed run leaves behind
FailedRunState ==
    pc = "failed" =>
        /\ ~load_script
        /\ failed_at \in {"makedirs", "connect", "dbgen", "show"} =>
              ddl_file = <<>> /\ parquet = <<>> /\ steps = <<>>
        /\ failed_at = "open" =>
              /\ IsPrefix(ddl_file, Preamble(script)) /\ Len(ddl_file) < 5
              /\ parquet = <<>> /\ steps = <<>>
        /\ failed_at \in {"count", "copy", "describe", "write"} =>
              LET k == idx
                  gap == IF script = "tpcds" THEN " " ELSE "  "
                  exported == IF failed_at \in {"describe", "write"} THEN k ELSE k - 1
              IN  /\ PreambleAt(ddl_file)
                  /\ \A i \in 1..(k - 1) : BlockAt(ddl_file, i, gap)
                  /\ Len(ddl_file) >= 5 + 3 * (k - 1)
                  /\ Len(ddl_file) <= 5 + 3 * (k - 1) + (IF failed_at = "write" THEN 2 ELSE 0)
                  /\ Len(parquet) = exported
                  /\ \A i \in 1..exported : ParquetAt(i)
                  /\ \A j \in 1..Len(steps) : ((j - 1) \div 4) + 1 <= k

\* the step that fails removes nothing
FailureKeepsFiles ==
    (pc # "failed" /\ pc' = "failed") =>
        /\ parquet' = parquet
        /\ load_script' = load_script
        /\ IsPrefix(ddl_file, ddl_file')

\* after the failure the run does nothing more: the only step is a new run
FailureIsFinal ==
    pc = "failed" => (pc' = "makedirs" /\ run' = run + 1)

\* C10: a failure while table k is processed aborts the run at that step:
\* no later step runs, the load script is not written, nothing is retried,
\* and the Parquet files exported so far, the preamble and the blocks of
\* tables 1..k-1 stay as written.
C10_FailFast ==
    /\ [](StepsInOrder /\ FailedRunState)
    /\ [][FailureKeepsFiles /\ FailureIsFinal]_vars

C10_Witness ==
    /\ pc = "failed"
    /\ failed_at = "copy"
    /\ idx = 2
    /\ Len(ddl_file) = 8
    /\ Len(parquet) = 1
    /\ ~load_script

====
